---------------------------- MODULE Spec2Model ----------------------------
(***************************************************************************)
(* Staging/assembly engine of the installer builder:                       *)
(*   - get_python_version  (scripts/package_app.py, Env/tools variant)     *)
(*   - build / main        (scripts/package_app.py, Env/SetupFiles variant)*)
(*   - main / find_iscc    (scripts/build_installer.py)                    *)
(*   - the generated boot.py (boot_template of create_boot_py)             *)
(* Text is modelled as sequences of one-character strings so that the      *)
(* regular expressions and the version parser are computed, not assumed.   *)
(***************************************************************************)
EXTENDS Integers, Sequences, FiniteSets, TLC

VARIABLES
    \* ---- version resolver (get_python_version) ----
    req,        \* requirements.txt: [kind: missing|undecodable|denied|text, lines]
    legacy,     \* installed `packaging` still has LegacyVersion (< 22)
    runs,       \* results of the successive calls on req (scripts variant)
    runsTools,  \* results of the successive calls on req (Env/tools variant)
    \* ---- staging build (package_app.py main/build) ----
    fs,         \* the disk: path -> [kind: dir|file, data]
    pc,         \* per process: the next step of main/build
    arg,        \* per process: the resolved arguments of the invocation
    pyver,      \* per process: the local pyver of build
    exit,       \* per process: exit status of the last invocation (-1: none)
    log,        \* per process: diagnostics printed by the invocation
    replaced,   \* per process: build removed an out_dir holding another build
    \* ---- full build (build_installer.py main) ----
    ipc,        \* the next step of build_installer.main
    icfg,       \* build_config.json and the machine it runs on
    iexit,      \* exit status of build_installer.py (-1: still running)
    ran,        \* the external commands started, in order
    disk0,      \* the disk when build_installer.py was started
    \* ---- the generated boot.py at run time ----
    bpc,        \* the next step of boot.py
    sys_path,   \* sys.path
    path0,      \* sys.path when boot.py was started
    ondisk,     \* the candidate directories that exist (os.path.exists)
    p_idx,      \* loop index of the search-path loop (0-based)
    install_root,  \* _install_root_for_boot is set (not None)
    environ,    \* os.environ: variable name -> value
    started,    \* runpy.run_module was entered
    raised,     \* the step of the try block that raised ("none": none)
    log_file_path_str,  \* where the handler decided to log
    tried,      \* log files the handler tried to append to
    written,    \* log files the record was appended to
    stderr,     \* what was printed to sys.stderr
    escaped,    \* an exception left the script unhandled
    bexit,      \* exit status of the process (-1: still running)
    \* ---- helpers called on their own ----
    zpc,        \* zip_directory: "off", "staged", "zipped"
    archive,    \* the archive written: [by, entries: arcname -> data]
    marked,     \* ensure_pkg_tree: the tree after each of its runs
    entry_arg,  \* create_boot_py: the entry-file path it is given
    run_target  \* the module name the generated boot.py hands to run_module

rvars == <<req, legacy, runs, runsTools>>
bvars == <<fs, pc, arg, pyver, exit, log, replaced>>
ivars == <<ipc, icfg, iexit, ran, disk0>>
tvars == <<bpc, sys_path, path0, ondisk, p_idx, install_root, environ, started,
           raised, log_file_path_str, tried, written, stderr, escaped, bexit>>

uvars == <<zpc, archive, marked, entry_arg, run_target>>

vars == <<rvars, bvars, ivars, tvars, uvars>>

-----------------------------------------------------------------------------
(* Bounds *)
MaxLines == 2       \* lines of a manifest
MaxRuns  == 2       \* repeated resolver runs on one manifest

-----------------------------------------------------------------------------
(* Text helpers *)
None == <<"<none>">>

Digits == {"0", "1", "2", "3", "4", "5", "6", "7", "8", "9"}

DigitVal(c) ==
    CASE c = "0" -> 0 [] c = "1" -> 1 [] c = "2" -> 2 [] c = "3" -> 3
      [] c = "4" -> 4 [] c = "5" -> 5 [] c = "6" -> 6 [] c = "7" -> 7
      [] c = "8" -> 8 [] c = "9" -> 9

\* re.I: the only upper-case letters of the modelled alphabet fold to lower case
Lower(c) == CASE c = "P" -> "p" [] c = "V" -> "v" [] OTHER -> c

IsSpace(c) == c \in {" ", "\t"}

IsVerChar(c) == c \in Digits \cup {"."}         \* the class [\d.]

\* text[i..] starts with lit, ignoring case
StartsWithAt(text, i, lit) ==
    /\ i + Len(lit) - 1 <= Len(text)
    /\ \A k \in 1..Len(lit) : Lower(text[i + k - 1]) = Lower(lit[k])

\* first index >= i whose character fails test (Len+1 when none): a greedy X*
RECURSIVE SkipSpace(_, _)
SkipSpace(text, i) ==
    IF i <= Len(text) /\ IsSpace(text[i]) THEN SkipSpace(text, i + 1) ELSE i

RECURSIVE SkipVer(_, _)
SkipVer(text, i) ==
    IF i <= Len(text) /\ IsVerChar(text[i]) THEN SkipVer(text, i + 1) ELSE i

Slice(text, a, b) == [k \in 1..(b - a) |-> text[a + k - 1]]   \* text[a:b]

-----------------------------------------------------------------------------
(* The four patterns of get_python_version, in list order.                 *)
(*   kw \s* op \s* ["] ([\d.]+) ["]                                        *)
KwPython  == <<"p", "y", "t", "h", "o", "n">>
KwPyVer   == KwPython \o <<"_", "v", "e", "r", "s", "i", "o", "n">>
OpEq      == <<"=">>
OpEqEq    == <<"=", "=">>

formats == <<
    [kw |-> KwPython, op |-> OpEqEq, quoted |-> FALSE],   \* python==3.12.1
    [kw |-> KwPython, op |-> OpEqEq, quoted |-> TRUE],    \* python=="3.12.1"
    [kw |-> KwPython, op |-> OpEq,   quoted |-> TRUE],    \* python="3.12.1"
    [kw |-> KwPyVer,  op |-> OpEq,   quoted |-> TRUE] >>  \* python_version="3.12.1"

\* pattern.match at position i: the captured group, or None
MatchAt(pat, text, i) ==
    IF ~StartsWithAt(text, i, pat.kw) THEN None
    ELSE LET a == SkipSpace(text, i + Len(pat.kw)) IN
         IF ~StartsWithAt(text, a, pat.op) THEN None
         ELSE LET b  == SkipSpace(text, a + Len(pat.op))
                  okq == ~pat.quoted \/ (b <= Len(text) /\ text[b] = "\"")
                  c  == IF pat.quoted THEN b + 1 ELSE b
                  d  == SkipVer(text, c)
              IN  IF ~okq \/ d = c THEN None
                  ELSE IF pat.quoted /\ ~(d <= Len(text) /\ text[d] = "\"")
                       THEN None
                       ELSE Slice(text, c, d)

\* pattern.search(line): the leftmost match's group, or None
RECURSIVE SearchFrom(_, _, _)
SearchFrom(pat, text, i) ==
    IF i > Len(text) THEN None
    ELSE IF MatchAt(pat, text, i) # None THEN MatchAt(pat, text, i)
    ELSE SearchFrom(pat, text, i + 1)

Search(pat, text) == SearchFrom(pat, text, 1)

\* `for pattern in formats`: group of the first pattern that matches the line
RECURSIVE LineMatchFrom(_, _)
LineMatchFrom(text, k) ==
    IF k > Len(formats) THEN None
    ELSE IF Search(formats[k], text) # None THEN Search(formats[k], text)
    ELSE LineMatchFrom(text, k + 1)

LineMatch(text) == LineMatchFrom(text, 1)

\* `for line in content`: group of the first line that matches any pattern
RECURSIVE FirstMatchFrom(_, _)
FirstMatchFrom(lines, n) ==
    IF n > Len(lines) THEN None
    ELSE IF LineMatch(lines[n]) # None THEN LineMatch(lines[n])
    ELSE FirstMatchFrom(lines, n + 1)

FirstMatch(lines) == FirstMatchFrom(lines, 1)

-----------------------------------------------------------------------------
(* packaging.version.parse restricted to the strings [\d.]+ can capture:    *)
(* a release is dot-separated non-empty runs of digits.                     *)
Invalid == <<-1>>

RECURSIVE ParseRelease(_, _, _, _, _)
ParseRelease(v, i, cur, has, acc) ==
    IF i > Len(v) THEN (IF has THEN Append(acc, cur) ELSE Invalid)
    ELSE IF v[i] = "." THEN
            (IF has THEN ParseRelease(v, i + 1, 0, FALSE, Append(acc, cur))
             ELSE Invalid)
    ELSE ParseRelease(v, i + 1, cur * 10 + DigitVal(v[i]), TRUE, acc)

parse_version(v) == ParseRelease(v, 1, 0, FALSE, <<>>)

\* Version._key drops the trailing zeros of the release before comparing
RECURSIVE StripZeros(_)
StripZeros(r) ==
    IF Len(r) > 0 /\ r[Len(r)] = 0 THEN StripZeros(SubSeq(r, 1, Len(r) - 1))
    ELSE r

\* tuple comparison a < b
RECURSIVE TupleLess(_, _, _)
TupleLess(a, b, k) ==
    IF k > Len(a) THEN k <= Len(b)
    ELSE IF k > Len(b) THEN FALSE
    ELSE IF a[k] # b[k] THEN a[k] < b[k]
    ELSE TupleLess(a, b, k + 1)

VersionLess(ra, rb) == TupleLess(StripZeros(ra), StripZeros(rb), 1)

min_supported_version == parse_version(<<"3", ".", "9">>)

default_version == <<"3", ".", "1", "0", ".", "0">>

-----------------------------------------------------------------------------
(* get_python_version of scripts/package_app.py.  The result carries the   *)
(* returned string, the diagnostics printed, and whether it raised.        *)
MsgFound     == "Found Python version in requirements.txt"
MsgBelowMin  == "WARNING: below the minimum recommended version"
MsgNotFound  == "Warning: requirements.txt not found"
MsgReadError == "Warning: Error reading requirements.txt"
MsgNoVersion == "No Python version found in requirements.txt"

\* the resolver without its `except FileNotFoundError` clause
get_python_version_NoCatch(reqf, isLegacy) ==
    [ret |-> default_version, msgs |-> {}, raised |-> reqf.kind = "missing"]

get_python_version(reqf, isLegacy) ==
    IF reqf.kind = "missing" THEN           \* read_text: FileNotFoundError
        [ret |-> default_version, msgs |-> {MsgNotFound, MsgNoVersion},
         raised |-> FALSE]
    ELSE IF reqf.kind \in {"undecodable", "denied"} THEN
        \* read_text: UnicodeDecodeError, PermissionError: `except Exception`
        [ret |-> default_version, msgs |-> {MsgReadError, MsgNoVersion},
         raised |-> FALSE]
    ELSE LET version_str == FirstMatch(reqf.lines) IN
        IF version_str = None THEN
            [ret |-> default_version, msgs |-> {MsgNoVersion}, raised |-> FALSE]
        ELSE IF parse_version(version_str) # Invalid THEN
            [ret |-> version_str,
             msgs |-> {MsgFound} \cup
                 (IF VersionLess(parse_version(version_str), min_supported_version)
                  THEN {MsgBelowMin} ELSE {}),
             raised |-> FALSE]
        ELSE IF isLegacy THEN
            \* LegacyVersion: sorts before every Version
            [ret |-> version_str, msgs |-> {MsgFound, MsgBelowMin},
             raised |-> FALSE]
        ELSE
            \* InvalidVersion is raised inside the try: `except Exception`
            \* takes it; found_version_str is set, so the final message is
            \* skipped and the default is returned
            [ret |-> default_version, msgs |-> {MsgFound, MsgReadError},
             raised |-> FALSE]

(* get_python_version of Env/tools/package_app.py: one pattern, no parse   *)
PatTools == [kw |-> KwPython, op |-> OpEqEq, quoted |-> FALSE]

RECURSIVE ToolsFirstMatch(_, _)
ToolsFirstMatch(lines, n) ==
    IF n > Len(lines) THEN None
    ELSE IF Search(PatTools, lines[n]) # None THEN Search(PatTools, lines[n])
    ELSE ToolsFirstMatch(lines, n + 1)

get_python_version_tools(reqf) ==
    IF reqf.kind # "text" THEN default_version
    ELSE IF ToolsFirstMatch(reqf.lines, 1) = None THEN default_version
    ELSE ToolsFirstMatch(reqf.lines, 1)

-----------------------------------------------------------------------------
(* Manifest lines the resolver is exercised on *)
Quote == <<"\"">>

MkLine(pre, kw, sp, op, q, ver, suf) ==
    pre \o kw \o sp \o op \o sp \o (IF q THEN Quote ELSE <<>>) \o ver
        \o (IF q THEN Quote ELSE <<>>) \o suf

V38   == <<"3", ".", "8">>
V39   == <<"3", ".", "9">>
V3121 == <<"3", ".", "1", "2", ".", "1">>
V312x == <<"3", ".", "1", "2", ".">>        \* what [\d.]+ takes of 3.12.*

NotationLines ==
    { MkLine(<<>>, kw, <<>>, op, q, V38, <<>>) :
        kw \in {KwPython, KwPyVer}, op \in {OpEq, OpEqEq}, q \in BOOLEAN }

VersionLines ==
    { MkLine(<<>>, <<"P", "y", "t", "h", "o", "n">>, <<" ">>, OpEqEq, FALSE, V3121, <<>>),
      MkLine(<<>>, KwPython, <<>>, OpEqEq, FALSE, V312x, <<"*">>),
      MkLine(<<"#", " ">>, KwPython, <<>>, OpEqEq, FALSE, V39, <<>>),
      MkLine(<<>>, KwPython, <<>>, OpEqEq, TRUE, <<".">>, <<>>) }

OtherLines ==
    { <<"r", "e", "q", "=", "=", "2", ".", "3">>, <<>> }

LinePool == NotationLines \cup VersionLines \cup OtherLines

RECURSIVE SeqsUpTo(_, _)
SeqsUpTo(S, n) ==
    IF n = 0 THEN {<<>>}
    ELSE LET shorter == SeqsUpTo(S, n - 1) IN
         shorter \cup { Append(s, x) : s \in {t \in shorter : Len(t) = n - 1}, x \in S }

Manifests ==
    { [kind |-> k, lines |-> <<>>] : k \in {"missing", "undecodable", "denied"} }
    \cup { [kind |-> "text", lines |-> ls] : ls \in SeqsUpTo(LinePool, MaxLines) }

-----------------------------------------------------------------------------
(* The parts of the state a specification does not use stay as they start *)
IdleResolverVars ==
    /\ req = [kind |-> "missing", lines |-> <<>>]
    /\ legacy = FALSE
    /\ runs = <<>>
    /\ runsTools = <<>>

IdleBuildVars ==
    /\ pc = [p \in {1, 2} |-> "idle"]
    /\ arg = [p \in {1, 2} |->
                [folder |-> <<>>, name |-> "", entry |-> <<>>, version |-> <<>>,
                 out |-> <<>>, fault |-> "none"]]
    /\ pyver = [p \in {1, 2} |-> None]
    /\ exit = [p \in {1, 2} |-> -1]
    /\ log = [p \in {1, 2} |-> {}]
    /\ replaced = [p \in {1, 2} |-> FALSE]

IdleInstallerVars ==
    /\ ipc = "off"
    /\ icfg = <<>>
    /\ iexit = -1
    /\ ran = <<>>
    /\ disk0 = <<>>

IdleUnitVars ==
    /\ zpc = "off"
    /\ archive = <<>>
    /\ marked = <<>>
    /\ entry_arg = <<>>
    /\ run_target = <<>>

IdleBootVars ==
    /\ bpc = "off"
    /\ sys_path = <<>>
    /\ path0 = <<>>
    /\ ondisk = {}
    /\ p_idx = 0
    /\ install_root = FALSE
    /\ environ = <<>>
    /\ started = FALSE
    /\ raised = "none"
    /\ log_file_path_str = "Unknown"
    /\ tried = {}
    /\ written = {}
    /\ stderr = {}
    /\ escaped = FALSE
    /\ bexit = -1

(* Resolver specification: a manifest is fixed, the resolver is called on it *)
InitResolver ==
    /\ req \in Manifests
    /\ legacy \in BOOLEAN
    /\ runs = <<>>
    /\ runsTools = <<>>
    /\ fs = <<>>
    /\ IdleBuildVars
    /\ IdleInstallerVars
    /\ IdleBootVars
    /\ IdleUnitVars

CallGetPythonVersion ==
    /\ Len(runs) < MaxRuns
    /\ runs' = Append(runs, get_python_version(req, legacy))
    /\ UNCHANGED <<req, legacy, runsTools, bvars, ivars, tvars, uvars>>

CallGetPythonVersionTools ==
    /\ Len(runsTools) < 1
    /\ runsTools' = Append(runsTools, get_python_version_tools(req))
    /\ UNCHANGED <<req, legacy, runs, bvars, ivars, tvars, uvars>>

NextResolver ==
    \/ CallGetPythonVersion
    \/ CallGetPythonVersionTools

SpecResolver == InitResolver /\ [][NextResolver]_vars

-----------------------------------------------------------------------------
(* The disk.  A path is a sequence of names; fs maps the existing paths.    *)
Dir == [kind |-> "dir", data |-> [t |-> "dir"]]
File(data) == [kind |-> "file", data |-> data]

Exists(f, p) == p \in DOMAIN f
IsDir(f, p)  == p \in DOMAIN f /\ f[p].kind = "dir"
IsFile(f, p) == p \in DOMAIN f /\ f[p].kind = "file"

IsPrefix(r, p) == Len(r) <= Len(p) /\ SubSeq(p, 1, Len(r)) = r
Under(f, r)    == { p \in DOMAIN f : IsPrefix(r, p) }
Rel(p, r)      == SubSeq(p, Len(r) + 1, Len(p))
Parent(p)      == SubSeq(p, 1, Len(p) - 1)
Name(p)        == p[Len(p)]

\* the tree below r, by relative path
Tree(f, r) == [ q \in { Rel(p, r) : p \in Under(f, r) } |-> f[r \o q] ]

\* shutil.rmtree(r)
Rmtree(f, r) == [ p \in DOMAIN f \ Under(f, r) |-> f[p] ]

\* Path.mkdir(parents=True, exist_ok=True) / os.makedirs(exist_ok=True)
Mkdirs(f, p) ==
    [ q \in DOMAIN f \cup { SubSeq(p, 1, n) : n \in 1..Len(p) } |->
        IF q \in DOMAIN f THEN f[q] ELSE Dir ]

\* write_text / open(.., "w"): needs the parent directory
CanWrite(f, p) == Len(p) = 1 \/ IsDir(f, Parent(p))
WriteFile(f, p, data) ==
    [ q \in DOMAIN f \cup {p} |-> IF q = p THEN File(data) ELSE f[q] ]

\* names by what the code asks of them
PyNames      == {"core.py", "mod.py", "extra.py", "__init__.py"}   \* endswith(".py")
IgnoredNames == {"__pycache__", "core.pyc", ".git", ".vscode"}     \* ignore_patterns

\* a file copy2 cannot open
Denied(node) ==
    /\ node.kind = "file"
    /\ node.data.t = "manifest"
    /\ node.data.m.kind = "denied"

\* shutil.copytree(src, dst, ignore=...): what lands below dst
Copyable(f, src) ==
    { p \in Under(f, src) :
        /\ \A k \in (Len(src) + 1)..Len(p) : p[k] \notin IgnoredNames
        /\ ~Denied(f[p]) }

CopyFails(f, src) ==
    \E p \in Under(f, src) :
        /\ \A k \in (Len(src) + 1)..Len(p) : p[k] \notin IgnoredNames
        /\ Denied(f[p])

\* the entries of src are listed, then os.makedirs(dst), then they are copied
Copytree(f, src, dst) ==
    LET g == Mkdirs(f, dst) IN
    [ q \in DOMAIN g \cup { dst \o Rel(p, src) : p \in Copyable(f, src) } |->
        IF IsPrefix(dst, q) /\ (src \o Rel(q, dst)) \in Copyable(f, src)
        THEN f[src \o Rel(q, dst)] ELSE g[q] ]

\* a marker also where a sub-directory is a package already
NeedsMarker_Parents(f, d) ==
    /\ IsDir(f, d)
    /\ ~Exists(f, d \o <<"__init__.py">>)
    /\ \/ \E p \in DOMAIN f : Parent(p) = d /\ IsFile(f, p) /\ Name(p) \in PyNames
       \/ \E p \in DOMAIN f : Parent(p) = d /\ IsDir(f, p)
                              /\ Exists(f, p \o <<"__init__.py">>)

\* ensure_pkg_tree(root): touch __init__.py where a directory holds a .py file
NeedsMarker(f, d) ==
    /\ IsDir(f, d)
    /\ \E p \in DOMAIN f : Parent(p) = d /\ IsFile(f, p) /\ Name(p) \in PyNames
    /\ ~Exists(f, d \o <<"__init__.py">>)

\* a marker pass that opens every marker for writing, present or not
ensure_pkg_tree_Truncate(f, root) ==
    LET marks == { d \o <<"__init__.py">> :
                     d \in { x \in Under(f, root) :
                               /\ IsDir(f, x)
                               /\ \E p \in DOMAIN f : Parent(p) = x /\ IsFile(f, p)
                                                      /\ Name(p) \in PyNames } }
    IN  [ q \in DOMAIN f \cup marks |-> IF q \in marks THEN File([t |-> "empty"]) ELSE f[q] ]

ensure_pkg_tree(f, root) ==
    LET marks == { d \o <<"__init__.py">> : d \in { x \in Under(f, root) : NeedsMarker(f, x) } }
    IN  [ q \in DOMAIN f \cup marks |-> IF q \in DOMAIN f THEN f[q] ELSE File([t |-> "empty"]) ]

-----------------------------------------------------------------------------
(* Generators of scripts/package_app.py *)
INTERNAL_SCRIPTS_DIR_NAME == "_internal"
PYTHON_ENV_DIR_NAME       == "Env"
APP_LOGS_DIR_NAME         == "logs"

\* ver.split(".")
RECURSIVE SplitDots(_, _, _, _)
SplitDots(v, i, cur, acc) ==
    IF i > Len(v) THEN Append(acc, cur)
    ELSE IF v[i] = "." THEN SplitDots(v, i + 1, <<>>, Append(acc, cur))
    ELSE SplitDots(v, i + 1, Append(cur, v[i]), acc)

generate_custom_pth(ver) ==
    LET parts == SplitDots(ver, 1, <<>>, <<>>)
        base  == IF Len(parts) >= 2 THEN KwPython \o parts[1] \o parts[2]
                 ELSE KwPython \o SelectSeq(ver, LAMBDA c : c # ".")
    IN  << base \o <<".", "z", "i", "p">>, "Lib", ".", "import site" >>

\* str(Path(entry.replace("\\", ".").replace("/", ".")).with_suffix(""))
RECURSIVE LastDot(_, _)
LastDot(s, i) == IF i = 0 THEN 0 ELSE IF s[i] = "." THEN i ELSE LastDot(s, i - 1)

ModulePath(entry_module_file) ==
    LET dotted == [ k \in 1..Len(entry_module_file) |->
                      IF entry_module_file[k] \in {"\\", "/"} THEN "."
                      ELSE entry_module_file[k] ]
        i == LastDot(dotted, Len(dotted))
    IN  IF 1 < i /\ i < Len(dotted) THEN SubSeq(dotted, 1, i - 1) ELSE dotted

BootPy(app_pkg_name, entry_module_file) ==
    [t |-> "boot", pkg |-> app_pkg_name, module |-> ModulePath(entry_module_file),
     env |-> PYTHON_ENV_DIR_NAME, logs |-> APP_LOGS_DIR_NAME]

\* the record without its last line
Metadata_FourKeys(app_name, entry_file, version, pyv) ==
    [t |-> "metadata",
     lines |-> << <<"AppName", app_name>>, <<"AppFolder", app_name>>,
                  <<"EntryFile", entry_file>>, <<"Version", version>> >>]

Metadata(app_name, entry_file, version, pyv) ==
    [t |-> "metadata",
     lines |-> << <<"AppName", app_name>>, <<"AppFolder", app_name>>,
                  <<"EntryFile", entry_file>>, <<"Version", version>>,
                  <<"PythonVersion", pyv>> >>]

SetupBat == [t |-> "bat"]

-----------------------------------------------------------------------------
(* Inputs of the staging build *)
Procs    == {1, 2}
SeqProcs == {1}

FolderX == <<"appX">>
FolderY == <<"appY">>
FolderGone == <<"gone">>
Folders == {FolderX, FolderY, FolderGone}

AppNames == {"Demo"}                 \* --app-name; absent: the folder's name
EntryCore == <<"c", "o", "r", "e", ".", "p", "y">>
EntryFiles == {EntryCore}
Versions == {<<"1", ".", "0", ".", "0">>}
ExplicitOut == <<"out">>             \* --out-dir; absent: _temp/<name>_pkg
ScriptDir == <<"scripts">>           \* Path(__file__).parent
HelperScripts == <<"setup.ps1", "setup_gui.ps1">>
Faults == {"none", "copytree"}       \* step at which the disk refuses

\* an output root that does not depend on the name
PkgDirName_Fixed(n) == "app_pkg"

PkgDirName(n) ==
    CASE n = "appX" -> "appX_pkg" [] n = "appY" -> "appY_pkg"
      [] n = "Demo" -> "Demo_pkg" [] OTHER -> "other_pkg"

SrcFile(id) == File([t |-> "text", id |-> id])
ManifestFile(m) == File([t |-> "manifest", m |-> m])

LinePy38  == MkLine(<<>>, KwPython, <<>>, OpEqEq, FALSE, V38, <<>>)
LinePy312 == MkLine(<<>>, KwPython, <<>>, OpEqEq, FALSE, V3121, <<>>)

\* the manifests appX is built with
BuildManifests ==
    { [kind |-> k, lines |-> <<>>] : k \in {"missing", "undecodable", "denied"} }
    \cup { [kind |-> "text", lines |-> <<LinePy38>>] }

SourceX(m) ==
    (FolderX :> Dir)
    @@ (FolderX \o <<"core.py">> :> SrcFile("X/core.py"))
    @@ (FolderX \o <<"sub">> :> Dir)
    @@ (FolderX \o <<"sub", "mod.py">> :> SrcFile("X/sub/mod.py"))
    @@ (FolderX \o <<"docs">> :> Dir)
    @@ (FolderX \o <<"docs", "readme.txt">> :> SrcFile("X/docs/readme.txt"))
    @@ (FolderX \o <<"__pycache__">> :> Dir)
    @@ (FolderX \o <<"__pycache__", "core.pyc">> :> SrcFile("X/core.pyc"))
    @@ (IF m.kind = "missing" THEN <<>>
        ELSE (FolderX \o <<"requirements.txt">> :> ManifestFile(m)))

SourceY ==
    (FolderY :> Dir)
    @@ (FolderY \o <<"core.py">> :> SrcFile("Y/core.py"))
    @@ (FolderY \o <<"extra.py">> :> SrcFile("Y/extra.py"))
    @@ (FolderY \o <<"__init__.py">> :> SrcFile("Y/__init__.py"))
    @@ (FolderY \o <<"requirements.txt">> :>
            ManifestFile([kind |-> "text", lines |-> <<LinePy312>>]))

ScriptFiles ==
    (ScriptDir :> Dir)
    @@ (ScriptDir \o <<"setup.ps1">> :> SrcFile("setup.ps1"))

InitialDisk(m) == SourceX(m) @@ SourceY @@ ScriptFiles

\* req.read_text() as get_python_version sees it
ReadManifest(f, path) ==
    IF ~Exists(f, path) THEN [kind |-> "missing", lines |-> <<>>]
    ELSE IF f[path].kind = "file" /\ f[path].data.t = "manifest" THEN f[path].data.m
    ELSE [kind |-> "undecodable", lines |-> <<>>]

NoArg == [folder |-> <<>>, name |-> "", entry |-> <<>>, version |-> <<>>,
          out |-> <<>>, fault |-> "none"]

-----------------------------------------------------------------------------
(* scripts/package_app.py: main() and the steps of build(), per process.    *)
(* An exception unwinds to __main__: "ERROR: ..." and sys.exit(1).          *)
Terminal == {"idle", "done", "exited"}

internal_dir(a) == a.out \o <<INTERNAL_SCRIPTS_DIR_NAME>>
app_code_destination_dir(a) == a.out \o <<a.name>>

Goto(p, next) == pc' = [pc EXCEPT ![p] = next]

Abort(p, msg) ==
    /\ pc' = [pc EXCEPT ![p] = "exited"]
    /\ exit' = [exit EXCEPT ![p] = 1]
    /\ log' = [log EXCEPT ![p] = @ \cup {msg}]

\* main() without the is_dir() check
SrcIsDir_Unchecked(f, folder) == TRUE

\* src.is_dir()
SrcIsDir(f, folder) == IsDir(f, folder)

\* main(): src.is_dir() fails: sys.exit("ERROR: app_folder not found")
MainNotFound(p) ==
    /\ pc[p] \in Terminal
    /\ \E folder \in Folders :
        /\ ~SrcIsDir(fs, folder)
        /\ arg' = [arg EXCEPT ![p] = [NoArg EXCEPT !.folder = folder]]
    /\ pc' = [pc EXCEPT ![p] = "exited"]
    /\ exit' = [exit EXCEPT ![p] = 1]
    /\ log' = [log EXCEPT ![p] = {"ERROR: app_folder not found"}]
    /\ pyver' = [pyver EXCEPT ![p] = None]
    /\ replaced' = [replaced EXCEPT ![p] = FALSE]
    /\ UNCHANGED <<fs, rvars, ivars, tvars, uvars>>

\* out_base = Path(args.out_dir) if args.out_dir else Path("_temp", f"{name}_pkg")
\* build(out_base.resolve(), src, args.app_name or src.name, entry, version)
BuildArgs(folder, nm, entry, version, explicit, fault) ==
    LET name == IF nm = "" THEN Name(folder) ELSE nm
        out  == IF explicit THEN ExplicitOut
                ELSE <<"_temp", PkgDirName(name)>>
    IN  [folder |-> folder, name |-> name, entry |-> entry,
         version |-> version, out |-> out, fault |-> fault]

\* main(): arguments resolved, build() entered
MainBuild(p) ==
    /\ pc[p] \in Terminal
    /\ \E folder \in Folders, nm \in AppNames \cup {""}, entry \in EntryFiles,
          version \in Versions, explicit \in BOOLEAN, fault \in Faults :
        /\ SrcIsDir(fs, folder)
        /\ arg' = [arg EXCEPT ![p] =
                     BuildArgs(folder, nm, entry, version, explicit, fault)]
    /\ pc' = [pc EXCEPT ![p] = "rmtree"]
    /\ exit' = [exit EXCEPT ![p] = -1]
    /\ log' = [log EXCEPT ![p] = {}]
    /\ pyver' = [pyver EXCEPT ![p] = None]
    /\ replaced' = [replaced EXCEPT ![p] = FALSE]
    /\ UNCHANGED <<fs, rvars, ivars, tvars, uvars>>

RmtreeIfExists(f, r) == IF Exists(f, r) THEN Rmtree(f, r) ELSE f

\* build() without the rmtree of an existing out_dir
RemoveOutDir_Keep(f, a) == f

\* if out_dir.exists(): shutil.rmtree(out_dir)
RemoveOutDir(f, a) == RmtreeIfExists(f, a.out)

\* files below the output root that no file of the source folder equals
Foreign(f, a) ==
    { q \in Under(f, a.out) :
        /\ f[q].kind = "file"
        /\ f[q].data.t = "text"
        /\ Len(q) > Len(a.out) + 1
        /\ q[Len(a.out) + 1] # INTERNAL_SCRIPTS_DIR_NAME
        /\ \A s2 \in Under(f, a.folder) : f[s2] # f[q] }

StepRmtree(p) ==
    /\ pc[p] = "rmtree"
    /\ fs' = RemoveOutDir(fs, arg[p])
    /\ replaced' = [replaced EXCEPT ![p] = Foreign(fs, arg[p]) # {}]
    /\ Goto(p, "mkdir")
    /\ UNCHANGED <<arg, pyver, exit, log, rvars, ivars, tvars, uvars>>

\* out_dir.mkdir(parents=True, exist_ok=True)
StepMkdir(p) ==
    /\ pc[p] = "mkdir"
    /\ fs' = Mkdirs(fs, arg[p].out)
    /\ Goto(p, "mkinternal")
    /\ UNCHANGED <<arg, pyver, exit, log, replaced, rvars, ivars, tvars, uvars>>

\* internal_dir.mkdir(exist_ok=True)
StepMkInternal(p) ==
    /\ pc[p] = "mkinternal"
    /\ IF IsDir(fs, arg[p].out)
       THEN /\ fs' = Mkdirs(fs, internal_dir(arg[p]))
            /\ Goto(p, "scripts")
            /\ UNCHANGED <<exit, log>>
       ELSE /\ Abort(p, "ERROR: mkdir")
            /\ UNCHANGED fs
    /\ UNCHANGED <<arg, pyver, replaced, rvars, ivars, tvars, uvars>>

\* for fname in ("setup.ps1", "setup_gui.ps1"): copy2 or print a warning
RECURSIVE CopyScripts(_, _, _)
CopyScripts(f, a, k) ==
    IF k > Len(HelperScripts) THEN f
    ELSE LET source_file == ScriptDir \o <<HelperScripts[k]>> IN
         IF IsFile(f, source_file)
         THEN CopyScripts(WriteFile(f, internal_dir(a) \o <<HelperScripts[k]>>,
                                    f[source_file].data), a, k + 1)
         ELSE CopyScripts(f, a, k + 1)

MissingScripts(f) ==
    { HelperScripts[k] : k \in { j \in 1..Len(HelperScripts) :
                                   ~IsFile(f, ScriptDir \o <<HelperScripts[j]>>) } }

StepCopyScripts(p) ==
    /\ pc[p] = "scripts"
    /\ IF IsDir(fs, internal_dir(arg[p])) \/ MissingScripts(fs) = {"setup.ps1", "setup_gui.ps1"}
       THEN /\ fs' = CopyScripts(fs, arg[p], 1)
            /\ log' = [log EXCEPT ![p] = @ \cup
                         (IF MissingScripts(fs) # {} THEN {"Warning: Script not found"} ELSE {})]
            /\ Goto(p, "resolve")
            /\ UNCHANGED exit
       ELSE /\ Abort(p, "ERROR: copy2")
            /\ UNCHANGED fs
    /\ UNCHANGED <<arg, pyver, replaced, rvars, ivars, tvars, uvars>>

\* pyver = get_python_version(src_dir / "requirements.txt")
StepResolve(p) ==
    /\ pc[p] = "resolve"
    /\ LET r == get_python_version(
                    ReadManifest(fs, arg[p].folder \o <<"requirements.txt">>), legacy)
       IN  IF r.raised
           THEN /\ Abort(p, "ERROR: get_python_version")
                /\ UNCHANGED pyver
           ELSE /\ pyver' = [pyver EXCEPT ![p] = r.ret]
                /\ log' = [log EXCEPT ![p] = @ \cup r.msgs]
                /\ Goto(p, "metadata")
                /\ UNCHANGED exit
    /\ UNCHANGED <<fs, arg, replaced, rvars, ivars, tvars, uvars>>

\* one write_text into internal_dir
WriteStep(p, fname, data, faultName, next) ==
    /\ IF arg[p].fault # faultName /\ IsDir(fs, internal_dir(arg[p]))
       THEN /\ fs' = WriteFile(fs, internal_dir(arg[p]) \o <<fname>>, data)
            /\ Goto(p, next)
            /\ UNCHANGED <<exit, log>>
       ELSE /\ Abort(p, "ERROR: write_text")
            /\ UNCHANGED fs
    /\ UNCHANGED <<arg, pyver, replaced, rvars, ivars, tvars, uvars>>

StepMetadata(p) ==
    /\ pc[p] = "metadata"
    /\ WriteStep(p, "metadata.txt",
                 Metadata(arg[p].name, arg[p].entry, arg[p].version, pyver[p]),
                 "metadata", "boot")

\* create_boot_py(internal_dir, app_name, entry_file)
StepBoot(p) ==
    /\ pc[p] = "boot"
    /\ WriteStep(p, "boot.py", BootPy(arg[p].name, arg[p].entry), "boot", "pth")

StepPth(p) ==
    /\ pc[p] = "pth"
    /\ WriteStep(p, "custom_pth.txt",
                 [t |-> "pth", lines |-> generate_custom_pth(pyver[p])], "pth", "copytree")

\* if dst.exists(): rmtree(dst);  shutil.copytree(src_dir, dst, ignore=...)
CopySource(f, a) ==
    Copytree(RmtreeIfExists(f, app_code_destination_dir(a)),
             a.folder, app_code_destination_dir(a))

\* a copy failure that is swallowed
CopyRaises_Swallowed(f, a) == FALSE

CopyRaises(f, a) ==
    \/ a.fault = "copytree"
    \/ ~IsDir(f, a.folder)
    \/ CopyFails(f, a.folder)

StepCopytree(p) ==
    /\ pc[p] = "copytree"
    /\ fs' = IF arg[p].fault = "copytree" \/ ~IsDir(fs, arg[p].folder)
             THEN RmtreeIfExists(fs, app_code_destination_dir(arg[p]))
             ELSE CopySource(fs, arg[p])
    /\ IF CopyRaises(fs, arg[p])
       THEN Abort(p, "ERROR: copytree")
       ELSE Goto(p, "pkgtree") /\ UNCHANGED <<exit, log>>
    /\ UNCHANGED <<arg, pyver, replaced, rvars, ivars, tvars, uvars>>

StepPkgTree(p) ==
    /\ pc[p] = "pkgtree"
    /\ fs' = ensure_pkg_tree(fs, app_code_destination_dir(arg[p]))
    /\ Goto(p, "bat")
    /\ UNCHANGED <<arg, pyver, exit, log, replaced, rvars, ivars, tvars, uvars>>

StepBat(p) ==
    /\ pc[p] = "bat"
    /\ IF IsDir(fs, internal_dir(arg[p]))
       THEN /\ fs' = WriteFile(fs, internal_dir(arg[p]) \o <<"setup.bat">>, SetupBat)
            /\ pc' = [pc EXCEPT ![p] = "done"]
            /\ exit' = [exit EXCEPT ![p] = 0]
            /\ UNCHANGED log
       ELSE /\ Abort(p, "ERROR: write_text")
            /\ UNCHANGED fs
    /\ UNCHANGED <<arg, pyver, replaced, rvars, ivars, tvars, uvars>>

BuildStep(p) ==
    \/ MainNotFound(p)
    \/ MainBuild(p)
    \/ StepRmtree(p)
    \/ StepMkdir(p)
    \/ StepMkInternal(p)
    \/ StepCopyScripts(p)
    \/ StepResolve(p)
    \/ StepMetadata(p)
    \/ StepBoot(p)
    \/ StepPth(p)
    \/ StepCopytree(p)
    \/ StepPkgTree(p)
    \/ StepBat(p)

\* Successive invocations of package_app.py by one process
Init ==
    /\ \E m \in BuildManifests : fs = InitialDisk(m)
    /\ IdleBuildVars
    /\ IdleResolverVars
    /\ IdleInstallerVars
    /\ IdleBootVars
    /\ IdleUnitVars

Next == \E p \in SeqProcs : BuildStep(p)

Spec == Init /\ [][Next]_vars

\* Two invocations of package_app.py started side by side, one per process:
\* process 1 packages appX, process 2 packages appY
ConcFolder(p) == IF p = 1 THEN FolderX ELSE FolderY

ConcMainBuild(p) ==
    /\ pc[p] = "idle"
    /\ \E nm \in AppNames \cup {""}, version \in Versions, explicit \in BOOLEAN :
        /\ SrcIsDir(fs, ConcFolder(p))
        /\ arg' = [arg EXCEPT ![p] =
                     BuildArgs(ConcFolder(p), nm, EntryCore, version, explicit, "none")]
    /\ pc' = [pc EXCEPT ![p] = "rmtree"]
    /\ exit' = [exit EXCEPT ![p] = -1]
    /\ log' = [log EXCEPT ![p] = {}]
    /\ pyver' = [pyver EXCEPT ![p] = None]
    /\ replaced' = [replaced EXCEPT ![p] = FALSE]
    /\ UNCHANGED <<fs, rvars, ivars, tvars, uvars>>

ConcStep(p) ==
    \/ ConcMainBuild(p)
    \/ StepRmtree(p)
    \/ StepMkdir(p)
    \/ StepMkInternal(p)
    \/ StepCopyScripts(p)
    \/ StepResolve(p)
    \/ StepMetadata(p)
    \/ StepBoot(p)
    \/ StepPth(p)
    \/ StepCopytree(p)
    \/ StepPkgTree(p)
    \/ StepBat(p)

NextConc == \E p \in Procs : ConcStep(p)

SpecConc == Init /\ [][NextConc]_vars

\* Invocations whose --out-dir may name the application folder itself
OutDirs(folder) == {ExplicitOut, folder}

MainBuildOut(p) ==
    /\ pc[p] \in Terminal
    /\ \E folder \in {FolderX, FolderY}, nm \in AppNames \cup {""} :
       \E out_dir \in OutDirs(folder) :
        /\ SrcIsDir(fs, folder)
        /\ arg' = [arg EXCEPT ![p] =
                     [BuildArgs(folder, nm, EntryCore, <<"1", ".", "0", ".", "0">>,
                                TRUE, "none") EXCEPT !.out = out_dir]]
    /\ pc' = [pc EXCEPT ![p] = "rmtree"]
    /\ exit' = [exit EXCEPT ![p] = -1]
    /\ log' = [log EXCEPT ![p] = {}]
    /\ pyver' = [pyver EXCEPT ![p] = None]
    /\ replaced' = [replaced EXCEPT ![p] = FALSE]
    /\ UNCHANGED <<fs, rvars, ivars, tvars, uvars>>

OutStep(p) ==
    \/ MainBuildOut(p)
    \/ MainNotFound(p)
    \/ StepRmtree(p)
    \/ StepMkdir(p)
    \/ StepMkInternal(p)
    \/ StepCopyScripts(p)
    \/ StepResolve(p)
    \/ StepMetadata(p)
    \/ StepBoot(p)
    \/ StepPth(p)
    \/ StepCopytree(p)
    \/ StepPkgTree(p)
    \/ StepBat(p)

NextOut == \E p \in SeqProcs : OutStep(p)

SpecOut == Init /\ [][NextOut]_vars

\* Invocations whose --app-name may be any directory name, that of the
\* internal-scripts subdirectory included
NamePool == AppNames \cup {INTERNAL_SCRIPTS_DIR_NAME, ""}

MainBuildName(p) ==
    /\ pc[p] \in Terminal
    /\ \E folder \in {FolderX, FolderY}, nm \in NamePool, explicit \in BOOLEAN :
        /\ SrcIsDir(fs, folder)
        /\ arg' = [arg EXCEPT ![p] =
                     BuildArgs(folder, nm, EntryCore, <<"1", ".", "0", ".", "0">>,
                               explicit, "none")]
    /\ pc' = [pc EXCEPT ![p] = "rmtree"]
    /\ exit' = [exit EXCEPT ![p] = -1]
    /\ log' = [log EXCEPT ![p] = {}]
    /\ pyver' = [pyver EXCEPT ![p] = None]
    /\ replaced' = [replaced EXCEPT ![p] = FALSE]
    /\ UNCHANGED <<fs, rvars, ivars, tvars, uvars>>

NameStep(p) ==
    \/ MainBuildName(p)
    \/ MainNotFound(p)
    \/ StepRmtree(p)
    \/ StepMkdir(p)
    \/ StepMkInternal(p)
    \/ StepCopyScripts(p)
    \/ StepResolve(p)
    \/ StepMetadata(p)
    \/ StepBoot(p)
    \/ StepPth(p)
    \/ StepCopytree(p)
    \/ StepPkgTree(p)
    \/ StepBat(p)

NextName == \E p \in SeqProcs : NameStep(p)

SpecName == Init /\ [][NextName]_vars

\* Invocations of package_app.py from a script directory that holds any of
\* the helper scripts, or none
ScriptDirs ==
    { (ScriptDir :> Dir)
      @@ [ q \in { ScriptDir \o <<n>> : n \in S } |-> SrcFile(Name(q)) ] :
        S \in SUBSET { HelperScripts[k] : k \in 1..Len(HelperScripts) } }

InitScripts ==
    /\ \E scripts \in ScriptDirs :
          fs = SourceX([kind |-> "text", lines |-> <<LinePy38>>]) @@ SourceY @@ scripts
    /\ IdleBuildVars
    /\ IdleResolverVars
    /\ IdleInstallerVars
    /\ IdleBootVars
    /\ IdleUnitVars

SpecScripts == InitScripts /\ [][Next]_vars

-----------------------------------------------------------------------------
(* Claims about the staging build *)
Entered(p) == arg[p].out # <<>>          \* build() was called by the invocation
SourceManifest(p) == ReadManifest(fs, arg[p].folder \o <<"requirements.txt">>)
InternalFile(p, fname) == internal_dir(arg[p]) \o <<fname>>
GeneratedNames == {"metadata.txt", "boot.py", "custom_pth.txt"}

\* a node below the output root that the finished build of p accounts for
FromThisBuild(p, q) ==
    LET a == arg[p]
        rel == Rel(q, a.out)
    IN  \/ rel = <<>>
        \/ rel = <<INTERNAL_SCRIPTS_DIR_NAME>>
        \/ /\ Len(rel) = 2 /\ rel[1] = INTERNAL_SCRIPTS_DIR_NAME
           /\ \/ rel[2] = "metadata.txt"
                 /\ fs[q] = File(Metadata(a.name, a.entry, a.version, pyver[p]))
              \/ rel[2] = "boot.py" /\ fs[q] = File(BootPy(a.name, a.entry))
              \/ rel[2] = "custom_pth.txt"
                 /\ fs[q] = File([t |-> "pth", lines |-> generate_custom_pth(pyver[p])])
              \/ rel[2] = "setup.bat" /\ fs[q] = File(SetupBat)
              \/ /\ IsFile(fs, ScriptDir \o <<rel[2]>>)
                 /\ fs[q] = fs[ScriptDir \o <<rel[2]>>]
        \/ /\ Len(rel) >= 1 /\ rel[1] = a.name
           /\ \/ /\ Exists(fs, a.folder \o Rel(rel, <<a.name>>))
                 /\ fs[q] = fs[a.folder \o Rel(rel, <<a.name>>)]
              \/ /\ Name(q) = "__init__.py"
                 /\ fs[q] = File([t |-> "empty"])
                 /\ Exists(fs, a.folder \o Rel(Parent(rel), <<a.name>>))

\* C1: after a build that followed another build into the same output root,
\* everything below the output root is an artifact of this build and of its
\* source: nothing of the earlier build survives.
C1_NoResidue ==
    \A p \in Procs :
        pc[p] = "done" =>
            \A q \in Under(fs, arg[p].out) : FromThisBuild(p, q)

\* a finished build whose output root held files of a different source
C1_Witness ==
    \E p \in Procs : pc[p] = "done" /\ replaced[p]

\* C4 (as claimed): with the manifest absent or unreadable the build ends with
\* exit status 0, a warning, and the default version in the metadata record.
C4_AsClaimed ==
    \A p \in Procs :
        ( /\ pc[p] \in {"done", "exited"}
          /\ Entered(p)
          /\ arg[p].fault = "none"
          /\ SourceManifest(p).kind \in {"missing", "undecodable", "denied"} )
        => ( /\ exit[p] = 0
             /\ Exists(fs, InternalFile(p, "metadata.txt"))
             /\ fs[InternalFile(p, "metadata.txt")] =
                    File(Metadata(arg[p].name, arg[p].entry, arg[p].version,
                                  default_version))
             /\ log[p] \cap {MsgNotFound, MsgReadError} # {} )

\* C4 (amended): a manifest that is absent, or present but not decodable as
\* text, ends the build with exit status 0, a warning and the default version
\* in the metadata record; a manifest that cannot be opened at all is resolved
\* to the default with a warning too (the metadata record is written), and the
\* build then aborts with status 1 in the copy of the source tree.
C4_ManifestNeverAborts ==
    \A p \in Procs :
        ( /\ pc[p] \in {"done", "exited"}
          /\ Entered(p)
          /\ arg[p].fault = "none"
          /\ SourceManifest(p).kind \in {"missing", "undecodable", "denied"} )
        => ( /\ Exists(fs, InternalFile(p, "metadata.txt"))
             /\ fs[InternalFile(p, "metadata.txt")] =
                    File(Metadata(arg[p].name, arg[p].entry, arg[p].version,
                                  default_version))
             /\ log[p] \cap {MsgNotFound, MsgReadError} # {}
             /\ "ERROR: get_python_version" \notin log[p]
             /\ IF SourceManifest(p).kind = "denied"
                THEN exit[p] = 1 /\ "ERROR: copytree" \in log[p]
                ELSE exit[p] = 0 /\ pc[p] = "done" )

C4_Witness ==
    \E p \in Procs :
        /\ pc[p] = "done"
        /\ exit[p] = 0
        /\ SourceManifest(p).kind = "missing"
        /\ MsgNotFound \in log[p]

\* C5: an invocation whose source directory does not exist exits at once with
\* a non-zero status and leaves the disk as it was.
C5_FailFast ==
    [][ \A p \in Procs :
          (arg'[p] # arg[p] /\ ~IsDir(fs, arg'[p].folder))
          => (fs' = fs /\ pc'[p] = "exited" /\ exit'[p] = 1) ]_vars

\* a rejected invocation, with the output of an earlier build still on disk
C5_Witness ==
    \E p \in Procs :
        /\ pc[p] = "exited"
        /\ "ERROR: app_folder not found" \in log[p]
        /\ Exists(fs, ExplicitOut \o <<INTERNAL_SCRIPTS_DIR_NAME, "metadata.txt">>)

-----------------------------------------------------------------------------
(* Claims about the version resolver *)
MatchingLines(lines) == { n \in 1..Len(lines) : LineMatch(lines[n]) # None }
Captures(lines) == { LineMatch(lines[n]) : n \in MatchingLines(lines) }

\* C2: whenever some line of the manifest matches a recognised notation the
\* result is the version string captured from such a line (below the floor
\* too, without failing); otherwise the result is the default version.
C2_AsClaimed ==
    \A i \in 1..Len(runs) :
        /\ ~runs[i].raised
        /\ IF req.kind = "text" /\ Captures(req.lines) # {}
           THEN runs[i].ret \in Captures(req.lines)
           ELSE runs[i].ret = default_version

\* C3: with several matching lines the result is the version of the first
\* matching line in file order, and repeated runs return the same result.
C3_AsClaimed ==
    /\ \A i \in 1..Len(runs) :
        (req.kind = "text" /\ Cardinality(MatchingLines(req.lines)) >= 2)
        => runs[i].ret = FirstMatch(req.lines)
    /\ \A i, j \in 1..Len(runs) : runs[i] = runs[j]
    /\ \A i \in 1..Len(runsTools) :
        (req.kind = "text" /\ ToolsFirstMatch(req.lines, 1) # None)
        => runsTools[i] = ToolsFirstMatch(req.lines, 1)

-----------------------------------------------------------------------------
(* scripts/build_installer.py: main(), step by step.  sys.exit(<message>)   *)
(* ends the process with status 1.                                          *)
OutputDir == <<"dist">>                  \* config['outputDir'], resolved
IssFile   == ScriptDir \o <<"installer.iss">>
TmpDir    == <<"tmp">>                   \* tempfile.TemporaryDirectory()
NotFound  == "<not found>"

\* build_config.json with the machine's Inno Setup installation
Configs ==
    [ appFolder : {FolderX, FolderGone},
      appName   : {"Demo"},
      issPath   : {IssFile, ScriptDir \o <<"missing.iss">>},
      isccPath  : {"", "C:/tools/ISCC.exe", "C:/nowhere/ISCC.exe"},
      which     : BOOLEAN,               \* shutil.which("ISCC.exe") finds one
      installed : BOOLEAN,               \* the default install path exists
      package   : {"ok", "ok_nodir", "failed", "failed_nodir"},
      isccExit  : {0, 2} ]

\* find_iscc with an environment that never has one
find_iscc_Missing(c) == NotFound

find_iscc(c) ==
    IF c.isccPath = "C:/tools/ISCC.exe" THEN c.isccPath      \* p.exists()
    ELSE IF c.which THEN "ISCC.exe on PATH"
    ELSE IF c.installed THEN "C:/Program Files (x86)/Inno Setup 6/ISCC.exe"
    ELSE NotFound

build_dir(c) == TmpDir \o <<PkgDirName(c.appName)>>

\* a with block that leaves its directory behind
LeaveTmp_Keep(f) == f

\* TemporaryDirectory.__exit__: the with block is left, normally or by an
\* exception (SystemExit included), and the directory is removed
LeaveTmp(f) == Rmtree(f, TmpDir)

ixvars == <<rvars, pc, arg, pyver, exit, log, replaced, tvars, uvars>>

IExit(status) ==
    /\ ipc' = "exited"
    /\ iexit' = status

\* python build_installer.py
IStart ==
    /\ ipc = "off"
    /\ \E c \in Configs : icfg' = c
    /\ ipc' = "mkdir_out"
    /\ disk0' = fs
    /\ UNCHANGED <<fs, iexit, ran>>
    /\ UNCHANGED ixvars

\* output_dir.mkdir(parents=True, exist_ok=True)
IMkdirOutput ==
    /\ ipc = "mkdir_out"
    /\ fs' = Mkdirs(fs, OutputDir)
    /\ ipc' = "validate"
    /\ UNCHANGED <<icfg, iexit, ran, disk0>>
    /\ UNCHANGED ixvars

\* if not app_dir.is_dir(): sys.exit;  if not iss_path.is_file(): sys.exit
IValidate ==
    /\ ipc = "validate"
    /\ IF ~IsDir(fs, icfg.appFolder) \/ ~IsFile(fs, icfg.issPath)
       THEN IExit(1)
       ELSE ipc' = "find_iscc" /\ UNCHANGED iexit
    /\ UNCHANGED <<fs, icfg, ran, disk0>>
    /\ UNCHANGED ixvars

\* iscc = find_iscc(config.get('isccPath'))
IFindIscc ==
    /\ ipc = "find_iscc"
    /\ IF find_iscc(icfg) = NotFound
       THEN IExit(1)
       ELSE ipc' = "tmp" /\ UNCHANGED iexit
    /\ UNCHANGED <<fs, icfg, ran, disk0>>
    /\ UNCHANGED ixvars

\* with tempfile.TemporaryDirectory() as tmp:
IEnterTmp ==
    /\ ipc = "tmp"
    /\ fs' = Mkdirs(fs, TmpDir)
    /\ ipc' = "package"
    /\ UNCHANGED <<icfg, iexit, ran, disk0>>
    /\ UNCHANGED ixvars

\* run([sys.executable, "package_app.py", ...]): check_call raises on a
\* non-zero exit; the with block removes tmp; __main__ ends with status 1
IRunPackage ==
    /\ ipc = "package"
    /\ ran' = Append(ran, "package_app.py")
    /\ IF icfg.package \in {"failed", "failed_nodir"}
       THEN /\ fs' = LeaveTmp(fs)
            /\ IExit(1)
       ELSE /\ fs' = IF icfg.package = "ok"
                     THEN WriteFile(Mkdirs(fs, build_dir(icfg) \o <<INTERNAL_SCRIPTS_DIR_NAME>>),
                                    build_dir(icfg) \o <<INTERNAL_SCRIPTS_DIR_NAME, "metadata.txt">>,
                                    [t |-> "staged"])
                     ELSE fs
            /\ ipc' = "check"
            /\ UNCHANGED iexit
    /\ UNCHANGED <<icfg, disk0>>
    /\ UNCHANGED ixvars

\* main() without the check of the build folder
BuildDirExists_Unchecked(f, c) == TRUE

\* build_dir.exists()
BuildDirExists(f, c) == Exists(f, build_dir(c))

\* if not build_dir.exists(): sys.exit("ERROR: packaging failed")
ICheckBuildDir ==
    /\ ipc = "check"
    /\ IF ~BuildDirExists(fs, icfg)
       THEN /\ fs' = LeaveTmp(fs)
            /\ IExit(1)
       ELSE /\ ipc' = "iscc"
            /\ UNCHANGED <<fs, iexit>>
    /\ UNCHANGED <<icfg, ran, disk0>>
    /\ UNCHANGED ixvars

\* run(iscc_cmd); leaving the with block removes tmp
IRunIscc ==
    /\ ipc = "iscc"
    /\ ran' = Append(ran, "ISCC.exe")
    /\ IF icfg.isccExit # 0
       THEN /\ fs' = LeaveTmp(fs)
            /\ IExit(1)         \* sys.exit("Build failed (exit N)")
       ELSE /\ fs' = WriteFile(LeaveTmp(fs),
                               OutputDir \o <<"Demo-1.0.0.exe">>, [t |-> "installer"])
            /\ IExit(0)
    /\ UNCHANGED <<icfg, disk0>>
    /\ UNCHANGED ixvars

InitInstaller ==
    /\ \E hasDist \in BOOLEAN, hasIss \in BOOLEAN :
        fs = (IF hasIss THEN (IssFile :> SrcFile("installer.iss")) ELSE <<>>)
             @@ (IF hasDist THEN (OutputDir :> Dir) ELSE <<>>)
             @@ InitialDisk([kind |-> "text", lines |-> <<LinePy38>>])
    /\ IdleResolverVars
    /\ IdleBuildVars
    /\ IdleInstallerVars
    /\ IdleBootVars
    /\ IdleUnitVars

NextInstaller ==
    \/ IStart
    \/ IMkdirOutput
    \/ IValidate
    \/ IFindIscc
    \/ IEnterTmp
    \/ IRunPackage
    \/ ICheckBuildDir
    \/ IRunIscc

SpecInstaller == InitInstaller /\ [][NextInstaller]_vars

\* C6: when the source directory is missing or the installer-compiler cannot
\* be found, build_installer.py exits non-zero and has written nothing: the
\* disk is as it was when it started (no output directory created).
C6_AsClaimed ==
    ( /\ ipc = "exited"
      /\ (~IsDir(disk0, icfg.appFolder) \/ find_iscc(icfg) = NotFound) )
    => (iexit # 0 /\ fs = disk0)

-----------------------------------------------------------------------------
(* The generated boot.py (boot_template) at run time.                       *)
MaxPath == 3        \* entries of sys.path when boot.py starts

\* paths_to_add, by what they name
paths_to_add == <<"install_root", "app_code_path", "site_packages_path", "env_path">>
Candidates == { paths_to_add[k] : k \in 1..Len(paths_to_add) }
PathPool == Candidates \cup {"script_dir", "python_zip"}

\* what can exist on disk: site-packages lies in Env, everything in the root
DiskCombos ==
    { d \in SUBSET Candidates :
        /\ (d # {} => "install_root" \in d)
        /\ ("site_packages_path" \in d => "env_path" \in d) }

Range(q) == { q[k] : k \in 1..Len(q) }

\* sys.path.insert(0, p_val): every candidate pushed to the front
InsertAt_Front(path, idx, val) == <<val>> \o path

\* sys.path.insert(p_idx, p_val), p_idx counted from 0
InsertAt(path, idx, val) ==
    LET pos == IF idx < Len(path) THEN idx ELSE Len(path)
    IN  SubSeq(path, 1, pos) \o <<val>> \o SubSeq(path, pos + 1, Len(path))

bxvars == <<rvars, bvars, ivars, uvars>>

\* script_dir = os.path.dirname(__file__); _install_root_for_boot = abspath(..)
BootRoot ==
    /\ bpc = "root"
    /\ \E ok \in BOOLEAN :
        IF ok
        THEN /\ install_root' = TRUE
             /\ bpc' = "paths"
             /\ UNCHANGED raised
        ELSE /\ raised' = "root"
             /\ bpc' = "handler"
             /\ UNCHANGED install_root
    /\ UNCHANGED <<sys_path, path0, ondisk, p_idx, environ, started,
                   log_file_path_str, tried, written, stderr, escaped, bexit>>
    /\ UNCHANGED bxvars

\* one turn of `for p_idx, p_val in enumerate(paths_to_add)`
BootInsert ==
    /\ bpc = "paths"
    /\ LET p_val == paths_to_add[p_idx + 1] IN
       sys_path' = IF p_val \in ondisk /\ p_val \notin Range(sys_path)
                   THEN InsertAt(sys_path, p_idx, p_val)
                   ELSE sys_path
    /\ p_idx' = p_idx + 1
    /\ bpc' = IF p_idx + 1 = Len(paths_to_add) THEN "environ" ELSE "paths"
    /\ UNCHANGED <<path0, ondisk, install_root, environ, started, raised,
                   log_file_path_str, tried, written, stderr, escaped, bexit>>
    /\ UNCHANGED bxvars

\* where the installer put this boot.py, and the package it was rendered for
BootFile == <<"C:", "Apps", "Demo", "_internal", "boot.py">>
BootAppName == <<"D", "e", "m", "o">>

\* os.path.abspath(os.path.join(os.path.dirname(__file__), ".."))
InstallRootOf(file) == Parent(Parent(file))

\* str.upper()
Upper(c) ==
    CASE c = "a" -> "A" [] c = "b" -> "B" [] c = "c" -> "C" [] c = "d" -> "D"
      [] c = "e" -> "E" [] c = "f" -> "F" [] c = "g" -> "G" [] c = "h" -> "H"
      [] c = "i" -> "I" [] c = "j" -> "J" [] c = "k" -> "K" [] c = "l" -> "L"
      [] c = "m" -> "M" [] c = "n" -> "N" [] c = "o" -> "O" [] c = "p" -> "P"
      [] c = "q" -> "Q" [] c = "r" -> "R" [] c = "s" -> "S" [] c = "t" -> "T"
      [] c = "u" -> "U" [] c = "v" -> "V" [] c = "w" -> "W" [] c = "x" -> "X"
      [] c = "y" -> "Y" [] c = "z" -> "Z" [] OTHER -> c

\* f"{_app_pkg_name_for_boot_template.upper()}_INSTALL_ROOT"
EnvKey(pkg) ==
    [ k \in 1..Len(pkg) |-> Upper(pkg[k]) ]
    \o <<"_", "I", "N", "S", "T", "A", "L", "L", "_", "R", "O", "O", "T">>

\* the process environment boot.py may inherit: nothing of interest, or the
\* variable left by a launcher of another installation
StartEnvirons ==
    { <<>>, (EnvKey(BootAppName) :> <<"D:", "Old", "Demo">>) }

\* the export left out
ExportInstallRoot_Skipped(env, pkg, root) == env

\* os.environ[key] = value
ExportInstallRoot(env, pkg, root) ==
    [ k \in DOMAIN env \cup {EnvKey(pkg)} |->
        IF k = EnvKey(pkg) THEN root ELSE env[k] ]

\* os.environ[f"{APP}_INSTALL_ROOT"] = _install_root_for_boot
BootEnviron ==
    /\ bpc = "environ"
    /\ \E ok \in BOOLEAN :
        IF ok
        THEN /\ environ' = ExportInstallRoot(environ, BootAppName, InstallRootOf(BootFile))
             /\ bpc' = "run"
             /\ UNCHANGED raised
        ELSE /\ raised' = "environ"
             /\ bpc' = "handler"
             /\ UNCHANGED environ
    /\ UNCHANGED <<sys_path, path0, ondisk, p_idx, install_root, started,
                   log_file_path_str, tried, written, stderr, escaped, bexit>>
    /\ UNCHANGED bxvars

\* runpy.run_module(...): the application returns, or raises an Exception
BootRunModule ==
    /\ bpc = "run"
    /\ started' = TRUE
    /\ \E ok \in BOOLEAN :
        IF ok
        THEN /\ bpc' = "ended"
             /\ bexit' = 0
             /\ UNCHANGED raised
        ELSE /\ raised' = "run_module"
             /\ bpc' = "handler"
             /\ UNCHANGED bexit
    /\ UNCHANGED <<sys_path, path0, ondisk, p_idx, install_root, environ,
                   log_file_path_str, tried, written, stderr, escaped>>
    /\ UNCHANGED bxvars

\* an exception nobody catches: traceback on stderr, exit status 1
Escape ==
    /\ escaped' = TRUE
    /\ stderr' = stderr \cup {"Traceback (most recent call last)"}
    /\ bexit' = 1
    /\ bpc' = "ended"

\* except Exception as e: ... choose log_file_path_str.  With the install
\* root known: makedirs(log_dir), and on its failure makedirs(temp_dir),
\* unguarded; with no install root: makedirs(temp_dir), unguarded.
HandlerLogDir ==
    /\ bpc = "handler"
    /\ \E mkLogs \in BOOLEAN, mkTemp \in BOOLEAN :
        IF install_root /\ mkLogs
        THEN /\ log_file_path_str' = "logs"
             /\ bpc' = "write"
             /\ UNCHANGED <<escaped, stderr, bexit>>
        ELSE IF mkTemp
        THEN /\ log_file_path_str' = "temp"
             /\ bpc' = "write"
             /\ UNCHANGED <<escaped, stderr, bexit>>
        ELSE /\ Escape
             /\ UNCHANGED log_file_path_str
    /\ UNCHANGED <<sys_path, path0, ondisk, p_idx, install_root, environ, started,
                   raised, tried, written>>
    /\ UNCHANGED bxvars

\* try: open(log_file_path_str, 'a').write(log_content)
\* except Exception: print("FATAL: Could not write to log file", stderr)
HandlerWrite ==
    /\ bpc = "write"
    /\ tried' = tried \cup {log_file_path_str}
    /\ \E ok \in BOOLEAN :
        IF ok
        THEN /\ written' = written \cup {log_file_path_str}
             /\ UNCHANGED stderr
        ELSE /\ stderr' = stderr \cup {"FATAL: Could not write to log file"}
             /\ UNCHANGED written
    /\ bpc' = "report"
    /\ UNCHANGED <<sys_path, path0, ondisk, p_idx, install_root, environ, started,
                   raised, log_file_path_str, escaped, bexit>>
    /\ UNCHANGED bxvars

\* print("FATAL ERROR in ..."), the message box or the full record, sys.exit(1)
HandlerReport ==
    /\ bpc = "report"
    /\ \E win32 \in BOOLEAN, boxShown \in BOOLEAN :
        stderr' = stderr \cup {"FATAL ERROR"}
                  \cup (IF win32 /\ boxShown THEN {} ELSE {"Full error details"})
    /\ bexit' = 1
    /\ bpc' = "ended"
    /\ UNCHANGED <<sys_path, path0, ondisk, p_idx, install_root, environ, started,
                   raised, log_file_path_str, tried, written, escaped>>
    /\ UNCHANGED bxvars

BootVarsAtStart ==
    /\ bpc = "root"
    /\ path0 = sys_path
    /\ ondisk \in DiskCombos
    /\ p_idx = 0
    /\ install_root = FALSE
    /\ environ \in StartEnvirons
    /\ started = FALSE
    /\ raised = "none"
    /\ log_file_path_str = "Unknown"
    /\ tried = {}
    /\ written = {}
    /\ stderr = {}
    /\ escaped = FALSE
    /\ bexit = -1

IdleOthers ==
    /\ fs = <<>>
    /\ IdleResolverVars
    /\ IdleBuildVars
    /\ IdleInstallerVars
    /\ IdleUnitVars

\* the search-path step, from every sys.path of up to MaxPath entries
InitBootPath ==
    /\ sys_path \in SeqsUpTo(PathPool, MaxPath)
    /\ BootVarsAtStart
    /\ IdleOthers

NextBootPath ==
    \/ BootRoot
    \/ BootInsert

SpecBootPath == InitBootPath /\ [][NextBootPath]_vars

\* a whole run of boot.py: `python boot.py`, or the embedded runtime whose
\* ._pth file already lists Env and its site-packages
StartPaths ==
    { <<"script_dir">>,
      <<"script_dir", "python_zip", "env_path", "site_packages_path">> }

InitBoot ==
    /\ sys_path \in StartPaths
    /\ BootVarsAtStart
    /\ IdleOthers

NextBoot ==
    \/ BootRoot
    \/ BootInsert
    \/ BootEnviron
    \/ BootRunModule
    \/ HandlerLogDir
    \/ HandlerWrite
    \/ HandlerReport

SpecBoot == InitBoot /\ [][NextBoot]_vars

-----------------------------------------------------------------------------
(* Claims about boot.py *)
Pos(q, v) == CHOOSE k \in 1..Len(q) : q[k] = v /\ \A j \in 1..(k - 1) : q[j] # v
Count(q, v) == Cardinality({ k \in 1..Len(q) : q[k] = v })
Inserted == { c \in Candidates : c \in ondisk /\ c \notin Range(path0) }
LoopDone == bpc = "environ"

\* C8 (as claimed): whatever sys.path was and whichever candidates exist, the
\* candidates stand in the search path in the order install root, application
\* code, site-packages, runtime root, the install root first; a candidate is
\* inserted only if it exists and is not already present.
C8_AsClaimed ==
    LoopDone =>
        /\ \A i, j \in 1..Len(paths_to_add) :
            (i < j /\ paths_to_add[i] \in Range(sys_path)
                   /\ paths_to_add[j] \in Range(sys_path))
            => Pos(sys_path, paths_to_add[i]) < Pos(sys_path, paths_to_add[j])
        /\ ("install_root" \in Range(sys_path) => sys_path[1] = "install_root")
        /\ \A c \in Candidates :
            Count(sys_path, c) = Count(path0, c) + (IF c \in Inserted THEN 1 ELSE 0)

\* C8 (amended): a candidate is inserted only if it exists on disk and is not
\* already present; the candidates the step inserts stand in the order install
\* root, application code, site-packages, runtime root among themselves, and
\* the install root, when inserted, is first; a candidate that was already in
\* sys.path keeps its place among the old entries, wherever that is.
C8_InsertedInOrder ==
    LoopDone =>
        /\ \A i, j \in 1..Len(paths_to_add) :
            (i < j /\ paths_to_add[i] \in Inserted /\ paths_to_add[j] \in Inserted)
            => Pos(sys_path, paths_to_add[i]) < Pos(sys_path, paths_to_add[j])
        /\ ("install_root" \in Inserted => sys_path[1] = "install_root")
        /\ \A c \in Candidates :
            Count(sys_path, c) = Count(path0, c) + (IF c \in Inserted THEN 1 ELSE 0)
        /\ SelectSeq(sys_path, LAMBDA e : e \notin Inserted) = path0

\* the loop ended with two candidates inserted around one already present
C8_Witness ==
    /\ LoopDone
    /\ Cardinality(Inserted) >= 2
    /\ Range(path0) \cap Candidates # {}
    /\ Range(path0) \cap Candidates \subseteq ondisk

\* C9: every fault of the start-up is caught and handled to the end: the short
\* diagnostic is on stderr, the exit status is non-zero, nothing escapes.
C9_AsClaimed ==
    (bpc = "ended" /\ raised # "none")
    => (~escaped /\ "FATAL ERROR" \in stderr /\ bexit # 0)

\* C10: the handler appends the record to the log file under logs/ of the
\* install root; if that write fails it falls back to the temporary directory.
C10_AsClaimed ==
    (bpc = "ended" /\ raised # "none" /\ install_root /\ ~escaped)
    => ("logs" \in written \/ "temp" \in tried)

-----------------------------------------------------------------------------
(* Claims about the metadata record *)
MetadataFiles(p) == { q \in Under(fs, arg[p].out) : Name(q) = "metadata.txt" }
MetadataKeys(p) ==
    LET ls == fs[InternalFile(p, "metadata.txt")].data.lines
    IN  [ k \in 1..Len(ls) |-> ls[k][1] ]
MetadataValues(p) ==
    LET ls == fs[InternalFile(p, "metadata.txt")].data.lines
    IN  [ k \in 1..Len(ls) |-> ls[k][2] ]
ResolvedVersion(p) == get_python_version(SourceManifest(p), legacy).ret

-----------------------------------------------------------------------------
(* Claims about build_installer.py *)
CompilerFailed ==
    /\ ipc = "exited"
    /\ Len(ran) > 0
    /\ ran[Len(ran)] = "ISCC.exe"
    /\ icfg.isccExit # 0

\* C12: when the installer-compiler exits with a non-zero code the build
\* invocation fails with that very code as its own exit status.
C12_AsClaimed ==
    CompilerFailed => iexit = icfg.isccExit

TmpAcquired == Len(ran) > 0        \* the with block was entered

-----------------------------------------------------------------------------
(* zip_directory (Env/package_app.py, Env/tools/package_app.py), called on   *)
(* the tree create_package_structure has staged in the temporary directory. *)
TopLevel == "python_app_package"         \* the zip name without ".zip"
StageRoot == <<"tmp", TopLevel>>         \* os.path.join(temp_dir, top_level)
StagedApp == StageRoot \o <<"app">>

\* what create_package_structure always leaves
StagedCore ==
    (<<"tmp">> :> Dir)
    @@ (StageRoot :> Dir)
    @@ (StageRoot \o <<"setup.bat">> :> File(SetupBat))
    @@ (StageRoot \o <<"SetupFiles">> :> Dir)
    @@ (StageRoot \o <<"SetupFiles", "boot.py">> :> SrcFile("boot.py"))
    @@ (StageRoot \o <<"SetupFiles", "metadata.txt">> :> SrcFile("metadata.txt"))
    @@ (StagedApp :> Dir)
    @@ (StagedApp \o <<"__init__.py">> :> File([t |-> "empty"]))
    @@ (StagedApp \o <<"core.py">> :> SrcFile("core.py"))

\* what shutil.copytree may have brought along from the application folder
StagedExtras ==
    (StagedApp \o <<"readme.txt">> :> SrcFile("readme.txt"))
    @@ (StagedApp \o <<"data">> :> Dir)
    @@ (StagedApp \o <<"sub">> :> Dir)
    @@ (StagedApp \o <<"sub", "mod.py">> :> SrcFile("sub/mod.py"))
    @@ (StagedApp \o <<"assets">> :> Dir)
    @@ (StagedApp \o <<"assets", "img">> :> Dir)
    @@ (StagedApp \o <<"assets", "img", "logo.png">> :> SrcFile("logo.png"))

StagedTrees ==
    { StagedCore @@ [ q \in X |-> StagedExtras[q] ] :
        X \in { Y \in SUBSET DOMAIN StagedExtras :
                  \A q \in Y : Parent(q) = StagedApp \/ Parent(q) \in Y } }

\* for root, dirs, files in os.walk(source_dir): for file in files:
\*     zipf.write(abs_file, os.path.relpath(abs_file, parent_of_source))
zip_directory(f, source_dir) ==
    LET parent_of_source == Parent(source_dir)
        files == { p \in Under(f, source_dir) : f[p].kind = "file" }
    IN  [ arc \in { Rel(p, parent_of_source) : p \in files } |->
            f[parent_of_source \o arc].data ]

InitZip ==
    /\ fs \in StagedTrees
    /\ zpc = "staged"
    /\ archive = <<>>
    /\ marked = <<>>
    /\ entry_arg = <<>>
    /\ run_target = <<>>
    /\ IdleResolverVars
    /\ IdleBuildVars
    /\ IdleInstallerVars
    /\ IdleBootVars

uxvars == <<rvars, pc, arg, pyver, exit, log, replaced, ivars, tvars, marked, entry_arg, run_target>>

\* Env/package_app.py: zip_directory(package_structure_path, output_zip)
ZipDirectory ==
    /\ zpc = "staged"
    /\ archive' = [by |-> "Env/package_app.py", entries |-> zip_directory(fs, StageRoot)]
    /\ zpc' = "zipped"
    /\ UNCHANGED fs
    /\ UNCHANGED uxvars

\* Env/tools/package_app.py: zip_directory(built_path, out_zip)
ZipDirectoryTools ==
    /\ zpc = "staged"
    /\ archive' = [by |-> "Env/tools/package_app.py", entries |-> zip_directory(fs, StageRoot)]
    /\ zpc' = "zipped"
    /\ UNCHANGED fs
    /\ UNCHANGED uxvars

NextZip ==
    \/ ZipDirectory
    \/ ZipDirectoryTools

SpecZip == InitZip /\ [][NextZip]_vars

\* the files and directories extraction creates: every entry, as a file, and
\* every proper prefix of an entry name, as a directory
ExtractedLayout(entries) ==
    [ q \in DOMAIN entries \cup
            UNION { { SubSeq(arc, 1, n) : n \in 1..(Len(arc) - 1) } :
                    arc \in DOMAIN entries } |->
        IF q \in DOMAIN entries THEN File(entries[q]) ELSE Dir ]

StagedLayout ==
    [ q \in { Rel(p, Parent(StageRoot)) : p \in Under(fs, StageRoot) } |->
        fs[Parent(StageRoot) \o q] ]

\* C14: every internal path of the archive starts with the staging root's own
\* name, and extraction reproduces the staged tree: the same files and the
\* same directories.
C14_AsClaimed ==
    zpc = "zipped" =>
        /\ \A arc \in DOMAIN archive.entries : arc[1] = Name(StageRoot)
        /\ ExtractedLayout(archive.entries) = StagedLayout

-----------------------------------------------------------------------------
(* Claims about concurrent staging builds *)
\* the disk build() leaves when nothing else runs: its steps, in order
BuildAlone(f, a, pv) ==
    LET f1 == Mkdirs(Mkdirs(RemoveOutDir(f, a), a.out), internal_dir(a))
        f2 == CopyScripts(f1, a, 1)
        f3 == WriteFile(f2, internal_dir(a) \o <<"metadata.txt">>,
                        Metadata(a.name, a.entry, a.version, pv))
        f4 == WriteFile(f3, internal_dir(a) \o <<"boot.py">>, BootPy(a.name, a.entry))
        f5 == WriteFile(f4, internal_dir(a) \o <<"custom_pth.txt">>,
                        [t |-> "pth", lines |-> generate_custom_pth(pv)])
        f6 == ensure_pkg_tree(CopySource(f5, a), app_code_destination_dir(a))
    IN  WriteFile(f6, internal_dir(a) \o <<"setup.bat">>, SetupBat)

AloneTree(p) == Tree(BuildAlone(fs, arg[p], ResolvedVersion(p)), arg[p].out)
AloneExit(p) == IF CopyRaises(fs, arg[p]) THEN 1 ELSE 0
BothEnded == \A p \in Procs : pc[p] \in {"done", "exited"}
BothDone == \A p \in Procs : pc[p] = "done"

\* C15: when two invocations build into the same output root side by side,
\* the final staging tree is the complete output of one of them (the one that
\* wrote last), never a mixture; here even for runs where both end with
\* status 0.
C15_AsClaimed ==
    (BothDone /\ arg[1].out = arg[2].out)
    => \E p \in Procs : Tree(fs, arg[p].out) = AloneTree(p)

\* C16 (as claimed): two invocations for different applications, each with
\* its name-derived output root, end with the tree and the status they would
\* have when run alone.
C16_AsClaimed ==
    ( /\ BothEnded
      /\ arg[1].folder # arg[2].folder
      /\ \A p \in Procs : arg[p].out # ExplicitOut )
    => \A p \in Procs :
        /\ exit[p] = AloneExit(p)
        /\ exit[p] = 0 => Tree(fs, arg[p].out) = AloneTree(p)

\* C16 (amended): two invocations with different application names and no
\* --out-dir compute different output roots, and each ends with the status and
\* the staging tree it would have when run alone; two applications built under
\* the same name share one root.
C16_Independent ==
    ( /\ BothEnded
      /\ arg[1].name # arg[2].name
      /\ \A p \in Procs : arg[p].out # ExplicitOut )
    => /\ arg[1].out # arg[2].out
       /\ \A p \in Procs :
            /\ exit[p] = AloneExit(p)
            /\ exit[p] = 0 => Tree(fs, arg[p].out) = AloneTree(p)

\* both builds finished, under different names, after running interleaved
C16_Witness ==
    /\ BothDone
    /\ arg[1].name # arg[2].name
    /\ \A p \in Procs : arg[p].out # ExplicitOut
    /\ \A p \in Procs : Tree(fs, arg[p].out) = AloneTree(p)

-----------------------------------------------------------------------------
(* ensure_pkg_tree / ensure_package_tree, run repeatedly on a tree *)
MaxMarkRuns == 2
PkgRoot == <<"pkg">>

PkgNodes ==
    (PkgRoot \o <<"core.py">> :> SrcFile("core.py"))
    @@ (PkgRoot \o <<"__init__.py">> :> SrcFile("__init__.py"))
    @@ (PkgRoot \o <<"sub">> :> Dir)
    @@ (PkgRoot \o <<"sub", "mod.py">> :> SrcFile("sub/mod.py"))
    @@ (PkgRoot \o <<"sub", "__init__.py">> :> SrcFile("sub/__init__.py"))
    @@ (PkgRoot \o <<"sub", "deep">> :> Dir)
    @@ (PkgRoot \o <<"sub", "deep", "extra.py">> :> SrcFile("sub/deep/extra.py"))
    @@ (PkgRoot \o <<"docs">> :> Dir)
    @@ (PkgRoot \o <<"docs", "readme.txt">> :> SrcFile("docs/readme.txt"))

PkgTrees ==
    { (PkgRoot :> Dir) @@ [ q \in X |-> PkgNodes[q] ] :
        X \in { Y \in SUBSET DOMAIN PkgNodes :
                  \A q \in Y : Parent(q) = PkgRoot \/ Parent(q) \in Y } }

\* Env/tools variant: os.walk, any(f.endswith(".py")), open(init_path, "w")
ensure_package_tree(f, root) ==
    LET dirs == { d \in Under(f, root) : NeedsMarker(f, d) }
    IN  [ q \in DOMAIN f \cup { d \o <<"__init__.py">> : d \in dirs } |->
            IF q \in DOMAIN f THEN f[q] ELSE File([t |-> "empty"]) ]

InitMarker ==
    /\ fs \in PkgTrees
    /\ marked = <<>>
    /\ zpc = "off"
    /\ archive = <<>>
    /\ entry_arg = <<>>
    /\ run_target = <<>>
    /\ IdleResolverVars
    /\ IdleBuildVars
    /\ IdleInstallerVars
    /\ IdleBootVars

mxvars == <<rvars, pc, arg, pyver, exit, log, replaced, ivars, tvars, zpc, archive, entry_arg, run_target>>

EnsurePkgTree ==
    /\ Len(marked) < MaxMarkRuns
    /\ fs' = ensure_pkg_tree(fs, PkgRoot)
    /\ marked' = Append(marked, Tree(fs', PkgRoot))
    /\ UNCHANGED mxvars

EnsurePackageTreeTools ==
    /\ Len(marked) < MaxMarkRuns
    /\ fs' = ensure_package_tree(fs, PkgRoot)
    /\ marked' = Append(marked, Tree(fs', PkgRoot))
    /\ UNCHANGED mxvars

NextMarker ==
    \/ EnsurePkgTree
    \/ EnsurePackageTreeTools

SpecMarker == InitMarker /\ [][NextMarker]_vars

MarkerFiles(tree) == { q \in DOMAIN tree : tree[q] = File([t |-> "empty"]) }

\* C17: a second run of the package marker, right after a first, changes
\* nothing: the tree and its set of marker files are those of the first run.
C17_Idempotent ==
    \A i \in 2..Len(marked) :
        /\ marked[i] = marked[1]
        /\ MarkerFiles(marked[i]) = MarkerFiles(marked[1])

\* two runs on a tree where the first run had markers to add at two levels
C17_Witness ==
    /\ Len(marked) >= 2
    /\ Cardinality(MarkerFiles(marked[1])) >= 2

-----------------------------------------------------------------------------
(* Claims about the source application folder *)
\* C18: the source application is never mutated: no step of a build changes
\* anything under the source root of its invocation, whatever the output
\* directory is.
C18_AsClaimed ==
    [][ \A p \in Procs :
          (pc[p] \notin Terminal)
          => Tree(fs', arg[p].folder) = Tree(fs, arg[p].folder) ]_vars

-----------------------------------------------------------------------------
(* create_boot_py / create_boot_file: from the entry file to the module run *)
Chars(s) ==
    CASE s = "core" -> <<"c", "o", "r", "e">>
      [] s = "launch" -> <<"l", "a", "u", "n", "c", "h">>
      [] s = "main" -> <<"m", "a", "i", "n">>
      [] s = "x.y" -> <<"x", ".", "y">>
      [] s = "sub/" -> <<"s", "u", "b", "/">>
      [] s = "sub\\" -> <<"s", "u", "b", "\\">>
      [] s = "a/b/" -> <<"a", "/", "b", "/">>
      [] s = "a\\b/" -> <<"a", "\\", "b", "/">>
      [] s = ".py" -> <<".", "p", "y">>
      [] s = ".pyw" -> <<".", "p", "y", "w">>
      [] s = "Demo" -> <<"D", "e", "m", "o">>
      [] OTHER -> <<>>

\* --entry-file: a path relative to the application folder
EntryPool ==
    { Chars(d) \o Chars(n) \o Chars(e) :
        d \in {"", "sub/", "sub\\", "a/b/", "a\\b/"},
        n \in {"core", "launch", "main", "x.y"},
        e \in {".py", ".pyw", ""} }

\* os.path.splitext(entry_file.replace("\\", ".").replace("/", "."))[0]
EntryModuleTools(entry) ==
    LET dotted == [ k \in 1..Len(entry) |->
                      IF entry[k] \in {"\\", "/"} THEN "." ELSE entry[k] ]
        i == LastDot(dotted, Len(dotted))
    IN  IF i > 1 /\ \E k \in 1..(i - 1) : dotted[k] # "."
        THEN SubSeq(dotted, 1, i - 1) ELSE dotted

\* runpy.run_module(f"{pkg}.{module}", run_name="__main__")
RunTarget(pkg, module) == Chars(pkg) \o <<".">> \o module

InitEntry ==
    /\ entry_arg \in EntryPool
    /\ run_target = <<>>
    /\ zpc = "off"
    /\ archive = <<>>
    /\ marked = <<>>
    /\ fs = <<>>
    /\ IdleResolverVars
    /\ IdleBuildVars
    /\ IdleInstallerVars
    /\ IdleBootVars

exvars == <<rvars, bvars, ivars, tvars, zpc, archive, marked, entry_arg>>

\* scripts/package_app.py: create_boot_py(internal_dir, app_name, entry_file)
CreateBootPy ==
    /\ run_target = <<>>
    /\ run_target' = RunTarget(BootPy("Demo", entry_arg).pkg,
                               BootPy("Demo", entry_arg).module)
    /\ UNCHANGED exvars

\* Env/tools/package_app.py: create_boot_file(setup_path, app_basename, entry_file)
CreateBootFileTools ==
    /\ run_target = <<>>
    /\ run_target' = RunTarget("Demo", EntryModuleTools(entry_arg))
    /\ UNCHANGED exvars

NextEntry ==
    \/ CreateBootPy
    \/ CreateBootFileTools

SpecEntry == InitEntry /\ [][NextEntry]_vars

\* the entry path with the extension of its last component dropped, then
\* every separator turned into a dot
IsSep(c) == c \in {"/", "\\"}
LastSep(s) == IF \E k \in 1..Len(s) : IsSep(s[k])
              THEN CHOOSE k \in 1..Len(s) : IsSep(s[k]) /\ \A j \in (k + 1)..Len(s) : ~IsSep(s[j])
              ELSE 0
ExtDot(s) ==
    LET from == LastSep(s) + 1
        dots == { k \in (from + 1)..Len(s) : s[k] = "." }
    IN  IF dots = {} THEN Len(s) + 1
        ELSE CHOOSE k \in dots : \A j \in dots : j <= k
DottedNoExtension(s) ==
    LET stem == SubSeq(s, 1, ExtDot(s) - 1)
    IN  [ k \in 1..Len(stem) |-> IF IsSep(stem[k]) THEN "." ELSE stem[k] ]

\* C19: every separator of the entry path becomes a dot and only the file
\* extension is dropped, so every path component is kept, and boot.py runs
\* <application-code package>.<that path>.
C19_AsClaimed ==
    run_target # <<>> =>
        run_target = Chars("Demo") \o <<".">> \o DottedNoExtension(entry_arg)

-----------------------------------------------------------------------------
(* Claims about the environment boot.py exports *)
\* C20: on every run in which the entry module is started, the variable
\* DEMO_INSTALL_ROOT (the application name upper-cased, then _INSTALL_ROOT)
\* already holds the install root, the parent of the directory of boot.py.
C20_ExportedBeforeStart ==
    started =>
        /\ <<"D", "E", "M", "O", "_", "I", "N", "S", "T", "A", "L", "L",
             "_", "R", "O", "O", "T">> \in DOMAIN environ
        /\ environ[<<"D", "E", "M", "O", "_", "I", "N", "S", "T", "A", "L", "L",
                     "_", "R", "O", "O", "T">>] = <<"C:", "Apps", "Demo">>

\* the entry module was started, under the embedded runtime's search path,
\* and returned
C20_Witness ==
    /\ started
    /\ bexit = 0
    /\ path0 # <<"script_dir">>
    /\ DOMAIN environ # {}

-----------------------------------------------------------------------------
(* Claims about what one run of the package marker leaves behind *)
DirsOf(tree) == { d \in DOMAIN tree : tree[d].kind = "dir" }
Marker(d) == d \o <<"__init__.py">>

\* os.walk's `files` of d holds a name ending in .py
HoldsSource(tree, d) ==
    \E q \in DOMAIN tree : /\ q # <<>>
                           /\ Parent(q) = d
                           /\ tree[q].kind = "file"
                           /\ Name(q) \in PyNames

-----------------------------------------------------------------------------
(* Claims about the generated files of the internal-scripts subdirectory *)
\* what build() wrote under the given generated name
Written(p, fname) ==
    CASE fname = "boot.py" -> File(BootPy(arg[p].name, arg[p].entry))
      [] fname = "metadata.txt" ->
            File(Metadata(arg[p].name, arg[p].entry, arg[p].version, pyver[p]))
      [] OTHER -> File([t |-> "pth", lines |-> generate_custom_pth(pyver[p])])

\* C22: for every application name, a successful build ends with the
\* bootstrap script, the metadata record and the search-path file present in
\* the internal-scripts subdirectory exactly as written: no later build step
\* (source copy, package marking, helper-launcher write) modifies or removes
\* them.
C22_AsClaimed ==
    \A p \in Procs :
        (pc[p] = "done" /\ exit[p] = 0) =>
            \A fname \in GeneratedNames :
                /\ Exists(fs, InternalFile(p, fname))
                /\ fs[InternalFile(p, fname)] = Written(p, fname)

-----------------------------------------------------------------------------
(* Claims about the propagation of failures *)
\* C23: no failure other than manifest resolution is swallowed; in
\* particular a build whose required helper script setup.ps1 cannot be found
\* or copied does not report success: every build that ends with status 0
\* has setup.ps1 in its internal-scripts subdirectory.
C23_AsClaimed ==
    \A p \in Procs :
        (pc[p] = "done" /\ exit[p] = 0) => IsFile(fs, InternalFile(p, "setup.ps1"))

-----------------------------------------------------------------------------
(* Claims about the agreement of the generated files *)
\* the directories of the staging root other than the internal-scripts one
AppCodeDirs(p) ==
    { Name(q) : q \in { x \in DOMAIN fs : /\ Len(x) = Len(arg[p].out) + 1
                                          /\ Parent(x) = arg[p].out
                                          /\ IsDir(fs, x)
                                          /\ Name(x) # INTERNAL_SCRIPTS_DIR_NAME } }

\* the value a metadata record gives for a key
ValueOf(record, key) ==
    LET ks == { k \in 1..Len(record.lines) : record.lines[k][1] = key }
    IN  IF ks = {} THEN None ELSE record.lines[CHOOSE k \in ks : TRUE][2]

\* C24: after every successful staging build the AppFolder value of the
\* metadata record, the package name embedded in the bootstrap script and the
\* name of the application-code subdirectory created under the staging root
\* are the same string, and the search-path file's archive name is the one
\* derived from the runtime version the metadata record states.
C24_AsClaimed ==
    \A p \in Procs :
        (pc[p] = "done" /\ exit[p] = 0) =>
            /\ \A fname \in GeneratedNames : IsFile(fs, InternalFile(p, fname))
            /\ LET md   == fs[InternalFile(p, "metadata.txt")].data
                   boot == fs[InternalFile(p, "boot.py")].data
                   pth  == fs[InternalFile(p, "custom_pth.txt")].data
               IN  /\ md.t = "metadata" /\ boot.t = "boot" /\ pth.t = "pth"
                   /\ AppCodeDirs(p) = {ValueOf(md, "AppFolder")}
                   /\ boot.pkg = ValueOf(md, "AppFolder")
                   /\ pth.lines = generate_custom_pth(ValueOf(md, "PythonVersion"))

-----------------------------------------------------------------------------
(* Claims about the order of staging and compiling *)
StagingFailed == icfg.package \in {"failed", "failed_nodir"}   \* non-zero exit

\* C25: the installer-compiler is started only after the staging subprocess
\* has ended with status 0 and the staging root exists; an invocation whose
\* staging subprocess exits non-zero or leaves no build folder ends with a
\* non-zero status without ever starting the compiler.
C25_CompilerAfterStaging ==
    [][ /\ (ran' # ran /\ ran'[Len(ran')] = "ISCC.exe") =>
              /\ ran = <<"package_app.py">>
              /\ ~StagingFailed
              /\ Exists(fs, build_dir(icfg))
        /\ (ipc' = "exited" /\ ipc # "exited" /\ Len(ran') > 0
              /\ (StagingFailed \/ ~Exists(fs, build_dir(icfg)))) =>
              /\ iexit' # 0
              /\ "ISCC.exe" \notin Range(ran') ]_vars

\* an invocation whose staging subprocess ended with status 0 but left no
\* build folder: ended after the staging step alone
C25_Witness ==
    /\ ipc = "exited"
    /\ icfg.package = "ok_nodir"
    /\ ran = <<"package_app.py">>
    /\ iexit = 1

=============================================================================
